---- MODULE Spec2Model ----
(***************************************************************************)
(* Model of python/tank/folder/configuration.py: FolderConfiguration.      *)
(*                                                                         *)
(* The schema on disk is the constant input `fs`.  The constructor is      *)
(* modelled as a sequence of steps over an explicit call stack, one step   *)
(* per loop iteration of _load_schema and _process_config_r.               *)
(*                                                                         *)
(* Strings that the code inspects (file names, ignore patterns, lines of   *)
(* the ignore file) are tuples of one-character strings; a path is a tuple *)
(* of names whose first element is the root marker Sep for an absolute     *)
(* path.                                                                   *)
(***************************************************************************)
EXTENDS Integers, Sequences, FiniteSets, TLC

(***************************************************************************)
(* Bounds of the model                                                     *)
(***************************************************************************)
\* most directories below the schema root in one schema
MaxDirs == 4
\* deepest directory below the schema root (1 = a project directory)
MaxDepth == 3

(***************************************************************************)
(* Strings                                                                 *)
(***************************************************************************)
Whitespace == {" ", "\n", "\t"}

\* str.startswith / str.endswith
StartsWith(s, pre) ==
    /\ Len(s) >= Len(pre)
    /\ SubSeq(s, 1, Len(pre)) = pre

EndsWith(s, suf) ==
    /\ Len(s) >= Len(suf)
    /\ SubSeq(s, Len(s) - Len(suf) + 1, Len(s)) = suf

\* `c in s`
Contains(s, c) == \E i \in 1..Len(s) : s[i] = c

\* s.index(c): position before the first c, counted from 0
IndexOf(s, c) == (CHOOSE i \in 1..Len(s) : s[i] = c /\ \A j \in 1..(i-1) : s[j] # c) - 1

\* str.strip()
RECURSIVE LStrip(_)
LStrip(s) == IF s # <<>> /\ Head(s) \in Whitespace THEN LStrip(Tail(s)) ELSE s

RECURSIVE RStrip(_)
RStrip(s) ==
    IF s # <<>> /\ s[Len(s)] \in Whitespace THEN RStrip(SubSeq(s, 1, Len(s) - 1)) ELSE s

Strip(s) == RStrip(LStrip(s))

\* fnmatch.fnmatch(name, pat) for patterns built from literals, ? and *
RECURSIVE Fnmatch(_, _)
Fnmatch(name, pat) ==
    IF pat = <<>> THEN name = <<>>
    ELSE IF Head(pat) = "*"
         THEN Fnmatch(name, Tail(pat)) \/ (name # <<>> /\ Fnmatch(Tail(name), pat))
         ELSE /\ name # <<>>
              /\ (Head(pat) = "?" \/ Head(pat) = Head(name))
              /\ Fnmatch(Tail(name), Tail(pat))

(***************************************************************************)
(* Paths                                                                   *)
(***************************************************************************)
Sep == <<"/">>
YmlSuffix == <<".", "y", "m", "l">>
IgnoreFilesName == <<"i", "g", "n", "o", "r", "e", "_", "f", "i", "l", "e", "s">>

IsAbs(p) == p # <<>> /\ Head(p) = Sep

\* a join that keeps a before an absolute b
JoinConcat(a, b) == a \o b

\* os.path.join(a, b): an absolute b discards a
Join(a, b) == IF IsAbs(b) THEN b ELSE a \o b

BaseName(p) == p[Len(p)]
DirName(p) == SubSeq(p, 1, Len(p) - 1)

\* "%s.yml" % full_path
YmlFile(full_path) == [full_path EXCEPT ![Len(full_path)] = @ \o YmlSuffix]

\* full_path.endswith(".yml"): the separator that precedes the last name is
\* never part of a match, the suffix being four characters with no separator
PathEndsWithYml(full_path) == EndsWith(BaseName(full_path), YmlSuffix)

\* the schema_config_path handed to the constructor
SchemaRoot == <<Sep, <<"s">>>>

(***************************************************************************)
(* Python values read from a sidecar: None, a mapping (a set of key/value  *)
(* pairs) or something that is no mapping                                  *)
(***************************************************************************)
PyNone == [py |-> "None"]
PyDict(items) == [py |-> "dict", items |-> items]
PyStr == [py |-> "str"]
NoneValue == "<None>"

\* "is not None" in place of the truth value
TruthyNotNone(v) == v.py # "None"

\* bool(value)
Truthy(v) ==
    CASE v.py = "None" -> FALSE
      [] v.py = "dict" -> v.items # {}
      [] OTHER -> TRUE

HasGet(v) == v.py = "dict"

\* dict.get(key, default)
DictGet(v, key, default) ==
    IF \E kv \in v.items : kv[1] = key
    THEN (CHOOSE kv \in v.items : kv[1] = key)[2]
    ELSE default

(***************************************************************************)
(* The schema on disk                                                      *)
(*   fs.dirs   the directories (absolute paths)                            *)
(*   fs.files  the regular files: absolute path -> content                 *)
(***************************************************************************)
VARIABLES fs, pc, ignore_files, entity_nodes_by_type, nodes, project_dirs,
          stack, error, returned, result

vars == <<fs, pc, ignore_files, entity_nodes_by_type, nodes, project_dirs,
          stack, error, returned, result>>

\* contents of files
NoSidecar == [kind |-> "none", ok |-> TRUE, value |-> PyNone]
Unparsable == [kind |-> "yaml", ok |-> FALSE, value |-> PyNone]
Doc(v) == [kind |-> "yaml", ok |-> TRUE, value |-> v]
TypeDoc(t) == Doc(PyDict({<<"type", t>>}))
EntityDoc(et) == Doc(PyDict({<<"type", "shotgun_entity">>, <<"entity_type", et>>}))
NoTypeDoc == Doc(PyDict({<<"name", "x">>}))
Payload == [kind |-> "data", ok |-> TRUE, value |-> PyNone]
Text(lines) == [kind |-> "text", lines |-> lines]

\* os.path.isdir, os.path.isfile, os.path.exists, os.listdir
IsDir(p) == p \in fs.dirs
IsFile(p) == p \in DOMAIN fs.files
Exists(p) == IsDir(p) \/ IsFile(p)
Listdir(p) == {BaseName(q) : q \in {x \in fs.dirs \cup DOMAIN fs.files : x # <<>> /\ DirName(x) = p}}

\* the orders in which os.listdir may enumerate a set of entries
Orders(S) ==
    {s \in [1..Cardinality(S) -> S] : \A i, j \in 1..Cardinality(S) : s[i] = s[j] => i = j}

(***************************************************************************)
(* Utility methods                                                         *)
(***************************************************************************)
\* the listing without the test on the leading "."
GetSubDirectoriesHidden(parent_path) ==
    {Join(parent_path, <<file_name>>) : file_name \in
        {n \in Listdir(parent_path) : IsDir(Join(parent_path, <<n>>))}}

\* _get_sub_directories: the entries of the listing that pass the test
GetSubDirectories(parent_path) ==
    {Join(parent_path, <<file_name>>) : file_name \in
        {n \in Listdir(parent_path) :
            IsDir(Join(parent_path, <<n>>)) /\ ~StartsWith(n, <<".">>)}}

\* the test without the check of the ".yml" ending
KeepFileYml(parent_path, file_name, patterns) ==
    /\ ~\E i \in 1..Len(patterns) : Fnmatch(file_name, patterns[i])
    /\ IsFile(Join(parent_path, <<file_name>>))

\* the test of _get_files_in_folder on one entry of the listing
KeepFile(parent_path, file_name, patterns) ==
    /\ ~\E i \in 1..Len(patterns) : Fnmatch(file_name, patterns[i])
    /\ IsFile(Join(parent_path, <<file_name>>))
    /\ ~PathEndsWithYml(Join(parent_path, <<file_name>>))

GetFilesInFolder(parent_path, patterns) ==
    {Join(parent_path, <<file_name>>) : file_name \in
        {n \in Listdir(parent_path) : KeepFile(parent_path, n, patterns)}}

\* _read_metadata: [ok |-> FALSE] stands for the TankError of line 99
ReadMetadata(full_path) ==
    LET yml_file == YmlFile(full_path) IN
    IF ~Exists(yml_file) THEN [ok |-> TRUE, value |-> PyNone]
    ELSE IF IsDir(yml_file) \/ ~fs.files[yml_file].ok THEN [ok |-> FALSE, value |-> PyNone]
    ELSE [ok |-> TRUE, value |-> fs.files[yml_file].value]

\* one line of the ignore file: comment cut, whitespace stripped
IgnoreLine(line) ==
    Strip(IF Contains(line, "#") THEN SubSeq(line, 1, IndexOf(line, "#")) ELSE line)

RECURSIVE IgnorePatterns(_)
IgnorePatterns(lines) ==
    IF lines = <<>> THEN <<>>
    ELSE LET line == IgnoreLine(Head(lines)) IN
         (IF line # <<>> THEN <<line>> ELSE <<>>) \o IgnorePatterns(Tail(lines))

\* _read_ignore_files
ReadIgnoreFiles(schema_config_path) ==
    LET file_path == Join(schema_config_path, <<IgnoreFilesName>>) IN
    IF Exists(file_path) THEN IgnorePatterns(fs.files[file_path].lines) ELSE <<>>

(***************************************************************************)
(* Folder objects (folder_types): data carriers                            *)
(*   nodes  the folder objects in order of creation; a node is named by    *)
(*          its position, 0 is "no parent"                                 *)
(***************************************************************************)
NodeTypes == {"shotgun_entity", "shotgun_list_field", "static", "user_workspace",
              "shotgun_step", "shotgun_task"}

\* a dispatch whose last branch makes a static folder
NodeClassLenient(node_type) ==
    CASE node_type = "shotgun_entity" -> "Entity"
      [] node_type = "shotgun_list_field" -> "ListField"
      [] node_type = "static" -> "Static"
      [] node_type = "user_workspace" -> "UserWorkspace"
      [] node_type = "shotgun_step" -> "ShotgunStep"
      [] node_type = "shotgun_task" -> "ShotgunTask"
      [] OTHER -> "Static"

\* the class whose create() the dispatch of _process_config_r calls
NodeClass(node_type) ==
    CASE node_type = "shotgun_entity" -> "Entity"
      [] node_type = "shotgun_list_field" -> "ListField"
      [] node_type = "static" -> "Static"
      [] node_type = "user_workspace" -> "UserWorkspace"
      [] node_type = "shotgun_step" -> "ShotgunStep"
      [] node_type = "shotgun_task" -> "ShotgunTask"
      [] OTHER -> "unknown"

\* <Class>.create(tk, parent, full_path, metadata)
Create(class, parent, full_path, metadata) ==
    [class |-> class, path |-> full_path, parent |-> parent, metadata |-> metadata,
     files |-> <<>>, children |-> <<>>]

\* the constructor of a folder object with a parent registers it as a child
AddNode(ns, node) ==
    Append(IF node.parent = 0 THEN ns
           ELSE [ns EXCEPT ![node.parent].children = Append(@, Len(ns) + 1)],
           node)

\* Entity.get_entity_type()
GetEntityType(node) == DictGet(node.metadata, "entity_type", NoneValue)

\* Folder.add_file for each file of a listing
AddFiles(ns, n, file_paths) == [ns EXCEPT ![n].files = @ \o file_paths]

(***************************************************************************)
(* The entity index: _entity_nodes_by_type                                 *)
(***************************************************************************)
EmptyDict == [k \in {} |-> <<>>]

\* d[key] = value
DictSet(d, key, value) == [k \in DOMAIN d \cup {key} |-> IF k = key THEN value ELSE d[k]]

\* a fresh list for the type at every Entity node
IndexAppendReset(d, et, n) == DictSet(d, et, <<n>>)

\* lines 178-180: setdefault and append
IndexAppend(d, et, n) ==
    LET e == IF et \notin DOMAIN d THEN DictSet(d, et, <<>>) ELSE d IN
    [e EXCEPT ![et] = Append(@, n)]

\* d.get(entity_type, [])
IndexGet(d, entity_type) == IF entity_type \in DOMAIN d THEN d[entity_type] ELSE <<>>

(***************************************************************************)
(* Steps of the constructor                                                *)
(*   pc            "new", "load_schema", "walk", "done", "raised"          *)
(*   project_dirs  what is left of the loop of _load_schema                *)
(*   stack         the calls of _process_config_r in progress, each with   *)
(*                 the node, its path and what is left of its loop         *)
(*   error         the exception that ended the constructor                *)
(*   returned      the caller holds the constructed object                 *)
(*   result        the last answer of get_folder_objs_for_entity_type      *)
(***************************************************************************)
NoError == [kind |-> "none", path |-> <<>>]
NoResult == [entity_type |-> NoneValue, nodes |-> <<>>]

Top == stack[Len(stack)]
Pop(st) == SubSeq(st, 1, Len(st) - 1)

\* an exception that is caught, the constructor returning the object
RaiseSwallowed(kind, path) ==
    /\ pc' = "done"
    /\ error' = [kind |-> kind, path |-> path]
    /\ returned' = TRUE
    /\ UNCHANGED <<fs, ignore_files, entity_nodes_by_type, nodes, project_dirs, stack,
                   result>>

\* raise: the exception leaves the constructor, nothing is returned
Raise(kind, path) ==
    /\ pc' = "raised"
    /\ error' = [kind |-> kind, path |-> path]
    /\ UNCHANGED <<fs, ignore_files, entity_nodes_by_type, nodes, project_dirs, stack,
                   returned, result>>

\* a call put off until the caller's loop has ended
CallDeferred(st, n, path, order) ==
    IF st = <<>> THEN <<[node |-> n, path |-> path, todo |-> order]>>
    ELSE SubSeq(st, 1, Len(st) - 1) \o
         <<[node |-> n, path |-> path, todo |-> order], st[Len(st)]>>

\* a call of _process_config_r(node, path): line 167 lists the subdirectories
Call(st, n, path, order) == Append(st, [node |-> n, path |-> path, todo |-> order])

\* __init__, lines 28-32
Construct ==
    /\ pc = "new"
    /\ entity_nodes_by_type' = EmptyDict
    /\ ignore_files' = ReadIgnoreFiles(SchemaRoot)
    /\ pc' = "load_schema"
    /\ UNCHANGED <<fs, nodes, project_dirs, stack, error, returned, result>>

\* _load_schema, lines 133-136
LoadSchema ==
    /\ pc = "load_schema"
    /\ \E order \in Orders(GetSubDirectories(SchemaRoot)) : project_dirs' = order
    /\ entity_nodes_by_type' = DictSet(entity_nodes_by_type, "Project", <<>>)
    /\ pc' = "walk"
    /\ UNCHANGED <<fs, ignore_files, nodes, stack, error, returned, result>>

\* the checks without the one on the type
RootErrorAnyType(metadata) ==
    CASE ~metadata.ok -> "ConfigParseError"
      [] metadata.ok /\ metadata.value = PyNone -> "MissingRootMetadataError"
      [] OTHER -> "none"

\* the checks of lines 143-149 on what _read_metadata gave: the exception they
\* end in, or "none"
RootError(metadata) ==
    CASE ~metadata.ok -> "ConfigParseError"
      [] metadata.ok /\ metadata.value = PyNone -> "MissingRootMetadataError"
      [] metadata.ok /\ metadata.value # PyNone /\ ~HasGet(metadata.value) -> "AttributeError"
      [] OTHER -> IF DictGet(metadata.value, "type", NoneValue) # "project"
                  THEN "InvalidRootTypeError"
                  ELSE "none"

\* the path an exception names
ErrorPath(kind, full_path) == IF kind = "ConfigParseError" THEN YmlFile(full_path) ELSE full_path

\* _load_schema, one turn of the loop of lines 138-157, up to the call
LoadProject ==
    /\ pc = "walk"
    /\ stack = <<>>
    /\ project_dirs # <<>>
    /\ LET project_dir == Head(project_dirs)
           schema_config_project_folder == Join(SchemaRoot, project_dir)
           metadata == ReadMetadata(schema_config_project_folder)
           err == RootError(metadata)
       IN  IF err # "none"
           THEN Raise(err, ErrorPath(err, schema_config_project_folder))
           ELSE LET project_obj ==
                        Create("Project", 0, schema_config_project_folder, metadata.value)
                    n == Len(nodes) + 1
                IN  /\ nodes' = AddNode(nodes, project_obj)
                    /\ entity_nodes_by_type' =
                           [entity_nodes_by_type EXCEPT !["Project"] = Append(@, n)]
                    /\ project_dirs' = Tail(project_dirs)
                    /\ \E order \in Orders(GetSubDirectories(schema_config_project_folder)) :
                           stack' = Call(stack, n, schema_config_project_folder, order)
                    /\ UNCHANGED <<fs, pc, ignore_files, error, returned, result>>

\* the checks of lines 169-199 on what _read_metadata gave
NodeError(metadata) ==
    CASE ~metadata.ok -> "ConfigParseError"
      [] metadata.ok /\ ~Truthy(metadata.value) -> "none"
      [] metadata.ok /\ Truthy(metadata.value) /\ ~HasGet(metadata.value) -> "AttributeError"
      [] OTHER -> IF NodeClass(DictGet(metadata.value, "type", "undefined")) = "unknown"
                  THEN "UnknownSchemaTypeError"
                  ELSE "none"

\* lines 170-204: the folder object made for a subdirectory
NewNode(parent_node, full_path, metadata) ==
    IF Truthy(metadata.value)
    THEN Create(NodeClass(DictGet(metadata.value, "type", "undefined")), parent_node,
                full_path, metadata.value)
    ELSE Create("Static", parent_node, full_path, PyDict({<<"type", "static">>}))

\* _process_config_r, one turn of the loop of lines 167-207, up to the call
ProcessSubdir ==
    /\ pc = "walk"
    /\ stack # <<>>
    /\ Top.todo # <<>>
    /\ LET parent_node == Top.node
           full_path == Head(Top.todo)
           metadata == ReadMetadata(full_path)
           err == NodeError(metadata)
           rest == [stack EXCEPT ![Len(stack)].todo = Tail(@)]
       IN  IF err # "none"
           THEN Raise(err, ErrorPath(err, full_path))
           ELSE LET cur_node == NewNode(parent_node, full_path, metadata)
                    n == Len(nodes) + 1
                IN  /\ nodes' = AddNode(nodes, cur_node)
                    /\ entity_nodes_by_type' =
                           IF cur_node.class = "Entity"
                           THEN IndexAppend(entity_nodes_by_type, GetEntityType(cur_node), n)
                           ELSE entity_nodes_by_type
                    /\ \E order \in Orders(GetSubDirectories(full_path)) :
                           stack' = Call(rest, n, full_path, order)
                    /\ UNCHANGED <<fs, pc, ignore_files, project_dirs, error, returned,
                                   result>>

\* _process_config_r, lines 210-211 and the return
ProcessFiles ==
    /\ pc = "walk"
    /\ stack # <<>>
    /\ Top.todo = <<>>
    /\ \E order \in Orders(GetFilesInFolder(Top.path, ignore_files)) :
           nodes' = AddFiles(nodes, Top.node, order)
    /\ stack' = Pop(stack)
    /\ UNCHANGED <<fs, pc, ignore_files, entity_nodes_by_type, project_dirs, error,
                   returned, result>>

\* _load_schema and __init__ return: the caller gets the object
Return ==
    /\ pc = "walk"
    /\ stack = <<>>
    /\ project_dirs = <<>>
    /\ pc' = "done"
    /\ returned' = TRUE
    /\ UNCHANGED <<fs, ignore_files, entity_nodes_by_type, nodes, project_dirs, stack,
                   error, result>>

\* get_folder_objs_for_entity_type(entity_type)
QueryTypes == {"Project", "Shot", "Asset", "Task"}

\* a lookup that makes the key it does not find
GetFolderObjsSetDefault(entity_type) ==
    /\ pc = "done"
    /\ returned
    /\ result' = [entity_type |-> entity_type,
                  nodes |-> IndexGet(entity_nodes_by_type, entity_type)]
    /\ entity_nodes_by_type' =
           IF entity_type \in DOMAIN entity_nodes_by_type THEN entity_nodes_by_type
           ELSE DictSet(entity_nodes_by_type, entity_type, <<>>)
    /\ UNCHANGED <<fs, pc, ignore_files, nodes, project_dirs, stack, error, returned>>

GetFolderObjsForEntityType(entity_type) ==
    /\ pc = "done"
    /\ returned
    /\ result' = [entity_type |-> entity_type,
                  nodes |-> IndexGet(entity_nodes_by_type, entity_type)]
    /\ UNCHANGED <<fs, pc, ignore_files, entity_nodes_by_type, nodes, project_dirs, stack,
                   error, returned>>

Next ==
    \/ Construct
    \/ LoadSchema
    \/ LoadProject
    \/ ProcessSubdir
    \/ ProcessFiles
    \/ Return
    \/ \E entity_type \in QueryTypes : GetFolderObjsForEntityType(entity_type)

(***************************************************************************)
(* The schemas the constructor is run on                                   *)
(***************************************************************************)
VisibleNames == {<<"a">>, <<"b">>}
HiddenNames == {<<"a">>, <<".", "h">>}
PayloadNames == {<<"n", ".", "t">>, <<"n", ".", "b">>}

IsHidden(r) == \E i \in 1..Len(r) : StartsWith(r[i], <<".">>)

\* the directory trees (sets of paths below the schema root, closed under
\* parent) of at most n directories, none deeper than MaxDepth
Extensions(S, names) ==
    {q \o <<nm>> : q \in {x \in S \cup {<<>>} : Len(x) < MaxDepth}, nm \in names} \ S

RECURSIVE Shapes(_, _)
Shapes(names, n) ==
    IF n = 0 THEN {{}}
    ELSE LET prev == Shapes(names, n - 1) IN
         prev \cup UNION {{S \cup {q} : q \in Extensions(S, names)} : S \in prev}

\* every kind of sidecar a top-level directory may have, and a deeper one
TopSidecars ==
    {NoSidecar, Unparsable, Doc(PyNone), Doc(PyDict({})), Doc(PyStr), NoTypeDoc,
     TypeDoc("project"), TypeDoc("static"), EntityDoc("Shot")}

DeepSidecars ==
    {NoSidecar, Unparsable, Doc(PyNone), Doc(PyDict({})), Doc(PyStr), NoTypeDoc,
     TypeDoc("project"), TypeDoc("bogus"),
     EntityDoc("Shot"), EntityDoc("Asset"), EntityDoc("Project")}
    \cup {TypeDoc(t) : t \in NodeTypes \ {"shotgun_entity"}}

\* ignore files: "*.b  # x", an empty line; a comment, "a", "n.?"
IgnoreStarB == Text(<< <<"*", ".", "b", " ", " ", "#", " ", "x", "\n">>, <<"\n">> >>)
IgnoreMixed == Text(<< <<"#", "x", "\n">>, <<" ", "a", " ", "\n">>, <<"n", ".", "?">> >>)
NoIgnoreFile == Text(<<>>)

\* the file system holding tree S with sidecars sc, payload files pl and ignore file ig
MkFS(S, sc, pl, ig) ==
    LET sidecars == {r \in S : sc[r].kind # "none"}
        payload == {r \o <<nm>> : r \in S, nm \in PayloadNames} \cap
                   UNION {{r \o <<nm>> : nm \in pl[r]} : r \in S}
        ymls == [q \in {YmlFile(SchemaRoot \o r) : r \in sidecars} |->
                    sc[CHOOSE r \in sidecars : YmlFile(SchemaRoot \o r) = q]]
        data == [q \in {SchemaRoot \o r : r \in payload} |-> Payload]
        ign == IF ig = NoIgnoreFile THEN EmptyDict
               ELSE [q \in {Join(SchemaRoot, <<IgnoreFilesName>>)} |-> ig]
    IN  [dirs |-> {SchemaRoot} \cup {SchemaRoot \o r : r \in S},
         files |-> ymls @@ data @@ ign]

\* the state before the constructor runs, on a schema of the given family
InitWith(shapes, top, deep, payloads, ignores) ==
    /\ \E S \in shapes :
         LET T == {r \in S : ~IsHidden(r) /\ Len(r) = 1}
             D == {r \in S : ~IsHidden(r) /\ Len(r) > 1}
             H == {r \in S : IsHidden(r)}
         IN  \E st \in [T -> top], sd \in [D -> deep], sh \in [H -> {NoSidecar, TypeDoc("bogus")}],
                pl \in [S -> payloads], ig \in ignores :
                fs = MkFS(S, st @@ sd @@ sh, pl, ig)
    /\ pc = "new"
    /\ ignore_files = <<>>
    /\ entity_nodes_by_type = EmptyDict
    /\ nodes = <<>>
    /\ project_dirs = <<>>
    /\ stack = <<>>
    /\ error = NoError
    /\ returned = FALSE
    /\ result = NoResult

\* larger trees, a few kinds of sidecar, one file in every directory
InitWalk ==
    InitWith(Shapes(VisibleNames, MaxDirs),
             {TypeDoc("project")},
             {NoSidecar, EntityDoc("Shot"), TypeDoc("bogus")},
             {{<<"n", ".", "t">>}}, {NoIgnoreFile})

\* trees with hidden directories
InitHidden ==
    InitWith(Shapes(HiddenNames, MaxDirs),
             {TypeDoc("project")}, {NoSidecar, EntityDoc("Shot")},
             {{<<"n", ".", "t">>}}, {NoIgnoreFile, IgnoreMixed})

\* small trees, every set of files, every ignore file
InitFiles ==
    InitWith(Shapes(VisibleNames, MaxDirs - 2),
             {TypeDoc("project")}, {TypeDoc("static")},
             SUBSET PayloadNames, {NoIgnoreFile, IgnoreStarB, IgnoreMixed})

\* small trees, every kind of sidecar
InitTypes ==
    InitWith(Shapes(VisibleNames, MaxDirs - 2), TopSidecars, DeepSidecars,
             {{}}, {NoIgnoreFile})

Init == InitWalk \/ InitHidden \/ InitFiles \/ InitTypes

Spec == Init /\ [][Next]_vars

(***************************************************************************)
(* What the schema on disk says, read off fs without the program           *)
(***************************************************************************)
Depth(d) == Len(d) - Len(SchemaRoot)

\* no name on the way from the schema root to d starts with "."
Visible(d) == \A i \in (Len(SchemaRoot) + 1)..Len(d) : Head(d[i]) # "."

\* the directories the walk is to visit: top-level ones, and those below them
Scanned == {d \in fs.dirs : Depth(d) >= 1 /\ Visible(d)}
TopLevel == {d \in Scanned : Depth(d) = 1}
Below == {d \in Scanned : Depth(d) > 1}
SubDirs(d) == {c \in Scanned : DirName(c) = d}

\* the content of the sidecar of d
Sidecar(d) == LET y == YmlFile(d) IN IF y \in DOMAIN fs.files THEN fs.files[y] ELSE NoSidecar
HasSidecar(d) == Sidecar(d).kind # "none"
Parses(d) == Sidecar(d).ok
\* the sidecar is a mapping, and what it declares under a key
IsMapping(d) == LET sc == Sidecar(d) IN sc.kind # "none" /\ sc.ok /\ sc.value.py = "dict"
Declares(d, key, value) ==
    LET sc == Sidecar(d) IN
    sc.kind # "none" /\ sc.ok /\ sc.value.py = "dict" /\ <<key, value>> \in sc.value.items
HasKey(d, key) ==
    LET sc == Sidecar(d) IN
    sc.kind # "none" /\ sc.ok /\ sc.value.py = "dict" /\ \E kv \in sc.value.items : kv[1] = key
\* no sidecar file, or one holding nothing
NoMetadata(d) == LET sc == Sidecar(d) IN sc.kind = "none" \/ (sc.ok /\ sc.value = PyNone)
EmptyMapping(d) ==
    LET sc == Sidecar(d) IN
    sc.kind # "none" /\ sc.ok /\ sc.value.py = "dict" /\ sc.value.items = {}
NonMapping(d) ==
    LET sc == Sidecar(d) IN sc.kind # "none" /\ sc.ok /\ sc.value.py \notin {"dict", "None"}

\* a directory below a project directory on which the walk cannot go on: its
\* sidecar is a non-empty mapping whose type, if any, is none of NodeTypes
UnknownType(d) ==
    LET sc == Sidecar(d) IN
    /\ sc.kind # "none" /\ sc.ok /\ sc.value.py = "dict" /\ sc.value.items # {}
    /\ \A kv \in sc.value.items : kv[1] = "type" => kv[2] \notin NodeTypes
Stops(d) == ~Parses(d) \/ NonMapping(d) \/ UnknownType(d)

NodeIds == 1..Len(nodes)
NodeAt(d) == {n \in NodeIds : nodes[n].path = d}
Range(seq) == {seq[i] : i \in 1..Len(seq)}
NoDuplicates(seq) == \A i, j \in 1..Len(seq) : seq[i] = seq[j] => i = j

(***************************************************************************)
(* C1                                                                      *)
(***************************************************************************)
AllTopProject == \A d \in TopLevel : Declares(d, "type", "project")

\* what get_folder_objs_for_entity_type("Project") returns is one node per
\* top-level directory and nothing else
ProjectsExact ==
    LET objs == IndexGet(entity_nodes_by_type, "Project") IN
    /\ NoDuplicates(objs)
    /\ {nodes[n].path : n \in Range(objs)} = TopLevel
    /\ \A d \in TopLevel : Cardinality({n \in Range(objs) : nodes[n].path = d}) = 1

\* C1 as claimed: whenever every top-level directory has a sidecar of type
\* "project" the build does not fail, and once it is done the nodes returned for
\* "Project" are exactly the top-level directories, each once.
C1_AsClaimed ==
    AllTopProject => /\ pc # "raised"
                     /\ pc = "done" => ProjectsExact

\* C1 amended: whenever every top-level directory has a sidecar of type
\* "project", the build fails only at a directory below a project directory whose
\* sidecar stops the walk (unparsable, no mapping, or of an unrecognised type);
\* and once the build is done, the Project nodes returned for "Project" are
\* exactly the top-level directories, each once, anything else returned being an
\* Entity node whose entity type is "Project".
C1_ProjectsOfValidRoots ==
    AllTopProject =>
        /\ pc = "raised" =>
               \E d \in Below : Stops(d) /\ error.path \in {d, YmlFile(d)}
        /\ (\A d \in Below : ~Stops(d)) => pc # "raised"
        /\ pc = "done" =>
               LET objs == IndexGet(entity_nodes_by_type, "Project")
                   projects == {n \in Range(objs) : nodes[n].class = "Project"}
               IN  /\ NoDuplicates(objs)
                   /\ {nodes[n].path : n \in projects} = TopLevel
                   /\ \A d \in TopLevel :
                          Cardinality({n \in projects : nodes[n].path = d}) = 1
                   /\ \A n \in Range(objs) \ projects :
                          /\ nodes[n].class = "Entity"
                          /\ Declares(nodes[n].path, "entity_type", "Project")

\* two project directories, one with a subdirectory, built and queried
C1_Witness ==
    /\ pc = "done"
    /\ AllTopProject
    /\ Cardinality(TopLevel) = 2
    /\ Below # {}
    /\ result.entity_type = "Project"
    /\ Len(result.nodes) = 2

(***************************************************************************)
(* C2                                                                      *)
(***************************************************************************)
Raised(kind) == pc = "raised" /\ error.kind = kind
WrongRootType(d) == HasKey(d, "type") /\ ~Declares(d, "type", "project")

\* no top-level directory is a node unless its sidecar declares type "project"
OnlyProjectsAtTop ==
    \A n \in NodeIds : Depth(nodes[n].path) = 1 =>
        /\ Declares(nodes[n].path, "type", "project")
        /\ nodes[n].class = "Project"

\* C2 as claimed: a top-level directory without sidecar makes the build fail
\* with the missing-root-metadata error, one whose sidecar declares another type
\* than "project" makes it fail with the invalid-root-type error, and only
\* directories of type "project" become top-level nodes.
C2_AsClaimed ==
    /\ (\E d \in TopLevel : ~HasSidecar(d)) =>
           /\ pc # "done"
           /\ pc = "raised" => error.kind = "MissingRootMetadataError"
    /\ (\E d \in TopLevel : WrongRootType(d)) =>
           /\ pc # "done"
           /\ pc = "raised" => error.kind = "InvalidRootTypeError"
    /\ OnlyProjectsAtTop

\* C2 amended: a top-level directory without sidecar metadata, or whose sidecar
\* does not declare type "project", keeps the build from completing; the build
\* fails at the first directory, in walk order, that stops it: the
\* missing-root-metadata error is raised for a top-level directory without
\* metadata and for nothing else, the invalid-root-type error for a top-level
\* directory whose sidecar is a mapping that does not declare type "project" and
\* for nothing else; and only directories of type "project" become top-level
\* nodes.
C2_RootValidation ==
    /\ (\E d \in TopLevel : ~Declares(d, "type", "project")) => pc # "done"
    /\ Raised("MissingRootMetadataError") =>
           error.path \in TopLevel /\ NoMetadata(error.path)
    /\ Raised("InvalidRootTypeError") =>
           /\ error.path \in TopLevel
           /\ IsMapping(error.path)
           /\ ~Declares(error.path, "type", "project")
    /\ \A d \in TopLevel : pc = "raised" /\ error.path = d =>
           /\ NoMetadata(d) => error.kind = "MissingRootMetadataError"
           /\ IsMapping(d) => error.kind = "InvalidRootTypeError"
    /\ OnlyProjectsAtTop

\* the second top-level directory is refused after the first was built
C2_Witness ==
    /\ Raised("InvalidRootTypeError")
    /\ WrongRootType(error.path)
    /\ \E n \in NodeIds : nodes[n].class = "Project" /\ nodes[n].path # error.path

(***************************************************************************)
(* C3                                                                      *)
(***************************************************************************)
DeclaresUnknownType(d) == HasKey(d, "type") /\ UnknownType(d)
\* the top-level directory above d is a project directory
UnderProject(d) == Declares(SubSeq(d, 1, Len(SchemaRoot) + 1), "type", "project")

\* C3 as claimed: a directory below a project directory whose sidecar declares
\* an unrecognised type makes the build fail with the unknown-schema-type error
\* naming that directory.
C3_AsClaimed ==
    \A d \in Below : (DeclaresUnknownType(d) /\ UnderProject(d)) =>
        /\ pc # "done"
        /\ pc = "raised" => error.kind = "UnknownSchemaTypeError" /\ error.path = d

\* C3 amended: a visited directory below a project directory whose sidecar
\* declares an unrecognised type keeps the build from completing and never
\* becomes a node; the build fails at the first directory, in walk order, that
\* stops it, and the unknown-schema-type error is raised exactly when that
\* directory is one below a project directory whose non-empty sidecar mapping
\* has an unrecognised or no type, and names the path of that directory.
C3_UnknownType ==
    /\ \A d \in Below : DeclaresUnknownType(d) => pc # "done" /\ NodeAt(d) = {}
    /\ Raised("UnknownSchemaTypeError") =>
           error.path \in Below /\ UnknownType(error.path)
    /\ \A d \in Below : pc = "raised" /\ error.path = d /\ UnknownType(d) =>
           error.kind = "UnknownSchemaTypeError"

\* the build fails at a directory of unknown type two levels below a project
C3_Witness ==
    /\ Raised("UnknownSchemaTypeError")
    /\ DeclaresUnknownType(error.path)
    /\ Depth(error.path) = 3

(***************************************************************************)
(* C4                                                                      *)
(***************************************************************************)
ImplicitStatic == Create("Static", 0, <<>>, PyDict({<<"type", "static">>}))
StoppedAt(d) == pc = "raised" /\ error.path \in {d, YmlFile(d)}

Places(n) ==
    {<<k, i>> \in (DOMAIN entity_nodes_by_type) \X (1..Len(nodes)) :
        i <= Len(entity_nodes_by_type[k]) /\ entity_nodes_by_type[k][i] = n}

\* C5: after a successful build every Entity node is at exactly one place of the
\* index, in the list keyed by the entity type its sidecar declares, and the
\* index holds nothing but Entity nodes under their entity type and Project
\* nodes under "Project".
C5_EntityIndex ==
    pc = "done" =>
        /\ \A n \in NodeIds : nodes[n].class = "Entity" =>
               /\ Cardinality(Places(n)) = 1
               /\ \A pl \in Places(n) : Declares(nodes[n].path, "entity_type", pl[1])
        /\ \A k \in DOMAIN entity_nodes_by_type : \A n \in Range(entity_nodes_by_type[k]) :
               /\ n \in NodeIds
               /\ \/ nodes[n].class = "Entity" /\ Declares(nodes[n].path, "entity_type", k)
                  \/ nodes[n].class = "Project" /\ k = "Project"

\* built: a Project node, two Entity nodes of one type, a Static node
C5_Witness ==
    /\ pc = "done"
    /\ "Shot" \in DOMAIN entity_nodes_by_type
    /\ Len(entity_nodes_by_type["Shot"]) = 2
    /\ Len(entity_nodes_by_type["Project"]) = 1
    /\ \E n \in NodeIds : nodes[n].class = "Static"

(***************************************************************************)
(* C6                                                                      *)
(***************************************************************************)
\* the walk has visited every directory it was to visit
AllWalked ==
    /\ stack = <<>>
    /\ project_dirs = <<>>
    /\ \A d \in Scanned : NodeAt(d) # {}

C6_State ==
    /\ returned => pc = "done" /\ error = NoError /\ AllWalked
    /\ pc = "raised" => ~returned /\ error # NoError
    /\ result # NoResult => returned

\* C6: the caller holds the object, and gets answers from it, only when the
\* whole walk has finished without error; an error leaves the caller without
\* object, and nothing runs after it.
C6_AllOrNothing == []C6_State /\ [][pc # "raised"]_vars

\* the build failed after nodes had been made and indexed
C6_Witness ==
    /\ pc = "raised"
    /\ ~returned
    /\ Len(nodes) >= 2
    /\ \E k \in DOMAIN entity_nodes_by_type : k # "Project"

(***************************************************************************)
(* C7                                                                      *)
(***************************************************************************)
Ignored(file_name) == \E i \in 1..Len(ignore_files) : Fnmatch(file_name, ignore_files[i])
IgnoreFile == fs.files[Join(SchemaRoot, <<IgnoreFilesName>>)]
HasIgnoreFile(ig) ==
    /\ Join(SchemaRoot, <<IgnoreFilesName>>) \in DOMAIN fs.files
    /\ IgnoreFile = ig
FilesIn(d) == {f \in DOMAIN fs.files : DirName(f) = d}
Named(F, file_name) == {f \in F : BaseName(f) = file_name}

\* C7: after a successful build the files of every node are, each once, the
\* regular files directly in its directory whose name neither ends in ".yml" nor
\* matches a loaded ignore pattern; with the ignore file "*.b  # x" a file n.b is
\* attached nowhere and a file n.t everywhere it lies, with the ignore file of
\* patterns "a" and "n.?" neither is attached.
C7_Files ==
    pc = "done" => \A n \in NodeIds : LET d == nodes[n].path  att == Range(nodes[n].files) IN
        /\ NoDuplicates(nodes[n].files)
        /\ att = {f \in FilesIn(d) : ~EndsWith(BaseName(f), YmlSuffix) /\ ~Ignored(BaseName(f))}
        /\ HasIgnoreFile(IgnoreStarB) =>
               /\ ignore_files = << <<"*", ".", "b">> >>
               /\ Named(att, <<"n", ".", "b">>) = {}
               /\ Named(att, <<"n", ".", "t">>) = Named(FilesIn(d), <<"n", ".", "t">>)
        /\ HasIgnoreFile(IgnoreMixed) =>
               /\ ignore_files = << <<"a">>, <<"n", ".", "?">> >>
               /\ att = {}

\* built with the ignore file "*.b  # x": a node whose directory holds n.t, n.b
\* and the sidecar of a subdirectory has n.t alone
C7_Witness ==
    /\ pc = "done"
    /\ HasIgnoreFile(IgnoreStarB)
    /\ \E n \in NodeIds : LET d == nodes[n].path IN
           /\ Named(FilesIn(d), <<"n", ".", "b">>) # {}
           /\ \E f \in FilesIn(d) : EndsWith(BaseName(f), YmlSuffix)
           /\ Len(nodes[n].files) = 1
           /\ BaseName(nodes[n].files[1]) = <<"n", ".", "t">>

(***************************************************************************)
(* C8                                                                      *)
(***************************************************************************)
ChildNodes(n) == {m \in NodeIds : nodes[m].parent = n}

RECURSIVE RootOf(_)
RootOf(n) == IF nodes[n].parent = 0 THEN n ELSE RootOf(nodes[n].parent)

\* C8: after a successful build there is one node for each directory that has
\* no hidden name on its path and none for any other; the children of a node
\* are the nodes of the subdirectories of its path that are not hidden, matching
\* an ignore pattern or not; and the parent chain of every node ends at a
\* Project node of a top-level directory.
C8_TreeMirrorsDirs ==
    pc = "done" =>
        /\ \A d \in Scanned : Cardinality(NodeAt(d)) = 1
        /\ \A n \in NodeIds : LET d == nodes[n].path IN
               /\ d \in Scanned
               /\ {nodes[m].path : m \in ChildNodes(n)} = SubDirs(d)
               /\ Range(nodes[n].children) = ChildNodes(n)
               /\ NoDuplicates(nodes[n].children)
               /\ nodes[n].parent \in NodeIds => nodes[nodes[n].parent].path = DirName(d)
               /\ nodes[n].parent \in NodeIds \cup {0}
               /\ nodes[RootOf(n)].class = "Project"
               /\ nodes[RootOf(n)].path \in TopLevel
               /\ nodes[n].class = "Project" <=> d \in TopLevel

\* built: a directory whose name matches an ignore pattern is a node, a hidden
\* directory with a subdirectory lies beside it
C8_Witness ==
    /\ pc = "done"
    /\ \E n \in NodeIds : Depth(nodes[n].path) > 1 /\ Ignored(BaseName(nodes[n].path))
    /\ \E h \in fs.dirs : ~Visible(h) /\ Visible(DirName(h)) /\ Depth(h) > 1
                          /\ \E c \in fs.dirs : DirName(c) = h

(***************************************************************************)
(* C9                                                                      *)
(***************************************************************************)
\* the nodes of an entity type, read off the tree
NodesOfType(t) ==
    {n \in NodeIds : \/ nodes[n].class = "Entity" /\ Declares(nodes[n].path, "entity_type", t)
                     \/ nodes[n].class = "Project" /\ t = "Project"}

\* C9: a call of get_folder_objs_for_entity_type on a built configuration does
\* not raise, answers with the nodes of the type asked for (none when no node of
\* that type was met), and leaves the index, its keys and the tree as they were.
C9_Query ==
    [][pc = "done" =>
          /\ pc' = "done"
          /\ error' = NoError
          /\ Range(result'.nodes) = NodesOfType(result'.entity_type)
          /\ (NodesOfType(result'.entity_type) = {} => result'.nodes = <<>>)
          /\ entity_nodes_by_type' = entity_nodes_by_type
          /\ DOMAIN entity_nodes_by_type' = DOMAIN entity_nodes_by_type
          /\ nodes' = nodes]_vars

\* asked for a type never met, on a configuration that met another one
C9_Witness ==
    /\ pc = "done"
    /\ result.entity_type = "Asset"
    /\ result.nodes = <<>>
    /\ "Asset" \notin DOMAIN entity_nodes_by_type
    /\ "Shot" \in DOMAIN entity_nodes_by_type

(***************************************************************************)
(* C10                                                                     *)
(***************************************************************************)
OnStack(n) == \E i \in 1..Len(stack) : stack[i].node = n

Registered(n) ==
    /\ nodes[n].class = "Project" => n \in Range(IndexGet(entity_nodes_by_type, "Project"))
    /\ nodes[n].class = "Entity" =>
           \E k \in DOMAIN entity_nodes_by_type :
               /\ Declares(nodes[n].path, "entity_type", k)
               /\ n \in Range(entity_nodes_by_type[k])

\* C10: at every point of the walk, the calls in progress are a chain from a
\* project node down; the node of each call exists and is registered, has no
\* files yet, and the subdirectories of its path are those still to be read,
\* which have no node, and those read, of which only the one in the next call
\* is in progress; every node not in progress has the whole of its
\* subdirectories as nodes, none in progress, and its files attached.
C10_PreOrder ==
    /\ \A i \in 1..Len(stack) : LET f == stack[i]  n == f.node IN
           /\ n \in NodeIds
           /\ nodes[n].path = f.path
           /\ Registered(n)
           /\ nodes[n].files = <<>>
           /\ NoDuplicates(f.todo)
           /\ Range(f.todo) \cap {nodes[m].path : m \in ChildNodes(n)} = {}
           /\ Range(f.todo) \cup {nodes[m].path : m \in ChildNodes(n)} = SubDirs(f.path)
           /\ \A m \in ChildNodes(n) : OnStack(m) => i < Len(stack) /\ stack[i + 1].node = m
           /\ IF i = 1 THEN nodes[n].parent = 0 ELSE nodes[n].parent = stack[i - 1].node
    /\ \A n \in NodeIds :
           /\ nodes[n].parent < n
           /\ ~OnStack(n) =>
                  /\ {nodes[m].path : m \in ChildNodes(n)} = SubDirs(nodes[n].path)
                  /\ \A m \in ChildNodes(n) : ~OnStack(m)
                  /\ Range(nodes[n].files) = GetFilesInFolder(nodes[n].path, ignore_files)
           /\ nodes[n].parent = 0 => nodes[n].path \notin Range(project_dirs)
    /\ \A d \in Range(project_dirs) : NodeAt(d) = {}

\* in the call for a project: one subdirectory and the one below it are done,
\* files attached, and a sibling is still to be read
C10_Witness ==
    /\ pc = "walk"
    /\ Len(stack) = 1
    /\ Top.todo # <<>>
    /\ \E m \in ChildNodes(Top.node) : \E g \in ChildNodes(m) :
           nodes[m].files # <<>> /\ nodes[g].files # <<>>

====
